---- MODULE Spec2Model ----
(***************************************************************************)
(* RusEFI Teensy 4.1 data logger (src/src/main.cpp): the INI schema        *)
(* parser, the legacy / CRC-framed wire protocol and the session state     *)
(* machine driven by loop().                                               *)
(*                                                                         *)
(* Text is modelled with TLA+ strings, one string per line of the INI      *)
(* file; the NUL that ends a C string is the end of the TLA+ string.       *)
(* Bytes on the wire are integers 0..255.  Time is kept as the elapsed     *)
(* time since each timestamp the code stores (millis() - stateEnterMs,     *)
(* millis() - lastPollMs, millis() - lastSyncMs), in milliseconds.         *)
(***************************************************************************)
EXTENDS Integers, Sequences, FiniteSets, TLC

\* ------------------------------------------------------------------------
\*  Configuration (main.cpp, "Configuration")
\* ------------------------------------------------------------------------
MAX_CHANNELS == 300
OCH_BUF_SIZE == 2948
POLL_INTERVAL_MS == 50
SYNC_INTERVAL_MS == 1000

\* Literal time constants of loop(), readResponse() and requestOCH()
DTR_SETTLE_MS == 300
SIG_TIMEOUT_MS == 4000
SIG_READ_TIMEOUT_MS == 2000
F_READ_TIMEOUT_MS == 1000
LINE_EXTEND_MS == 500
OCH_DEADLINE_MS == 1500
OCH_EXTEND_MS == 200
ERR_REMIND_MS == 10000

\* Sizes of the fixed character buffers
NAME_LEN == 24
UNIT_LEN == 12
FIELD_LEN == 32
LABEL_LEN == 40
TYPESTR_LEN == 8
SIG_LEN == 64
FRESP_LEN == 8

\* ------------------------------------------------------------------------
\*  Bounds of the model
\* ------------------------------------------------------------------------
\* Ticks of the clock it takes to pass a time-out of the state machine.
TicksPerWait == 2
\* Data rows written to one log file.
MaxRows == 2

\* Block sizes tried on either side of 1, 256 and OCH_BUF_SIZE.
FrameSpan == 20

\* Largest ochBlockSize for which whole responses are enumerated.
ReplyBlock == 2

\* Longest answer to 'S' that is enumerated byte by byte.
LineLen == 4

\* Channel lines and [Datalog] entries that FileFull holds beyond MAX_CHANNELS.
ParseExtra == 2

Min(a, b) == IF a < b THEN a ELSE b

\* (uint16_t) n
ToU16(n) == n % 65536

\* ------------------------------------------------------------------------
\*  String helpers
\* ------------------------------------------------------------------------
\* s[i-1] of a C string; "" stands for the terminating NUL.
Ch(s, i) == IF i >= 1 /\ i <= Len(s) THEN SubSeq(s, i, i) ELSE ""

\* The C string starting at s + (i-1).
From(s, i) == IF i <= Len(s) THEN SubSeq(s, i, Len(s)) ELSE ""

IsBlank(c) == c = " " \/ c = "\t"

RECURSIVE trimRight(_)
trimRight(s) ==
    IF Len(s) > 0 /\ Ch(s, Len(s)) \in {" ", "\t", "\r", "\n"}
    THEN trimRight(SubSeq(s, 1, Len(s) - 1))
    ELSE s

\* while (*p == ' ' || *p == '\t') p++;
RECURSIVE skipBlanks(_)
skipBlanks(s) == IF Len(s) > 0 /\ IsBlank(Ch(s, 1)) THEN skipBlanks(From(s, 2)) ELSE s

\* strchr: 1-based index of the first c in s, 0 when there is none.
RECURSIVE strchrFrom(_, _, _)
strchrFrom(s, c, i) ==
    IF i > Len(s) THEN 0
    ELSE IF Ch(s, i) = c THEN i
    ELSE strchrFrom(s, c, i + 1)

strchr(s, c) == strchrFrom(s, c, 1)

\* strncmp(s, lit, strlen(lit)) == 0
startsWith(s, lit) == Len(s) >= Len(lit) /\ SubSeq(s, 1, Len(lit)) = lit

\* atoi: leading white space, an optional sign, then decimal digits.
Digits == "0123456789"

DigitVal(c) == strchr(Digits, c) - 1

IsDigit(c) == c # "" /\ strchr(Digits, c) > 0

RECURSIVE atoiDigits(_, _)
atoiDigits(s, acc) ==
    IF IsDigit(Ch(s, 1)) THEN atoiDigits(From(s, 2), acc * 10 + DigitVal(Ch(s, 1)))
    ELSE acc

RECURSIVE skipSpace(_)
skipSpace(s) ==
    IF Len(s) > 0 /\ Ch(s, 1) \in {" ", "\t", "\n", "\r"} THEN skipSpace(From(s, 2)) ELSE s

atoiSigned(t) ==
    IF Ch(t, 1) = "-" THEN 0 - atoiDigits(From(t, 2), 0)
    ELSE IF Ch(t, 1) = "+" THEN atoiDigits(From(t, 2), 0)
    ELSE atoiDigits(t, 0)

atoi(s) == atoiSigned(skipSpace(s))

\* ------------------------------------------------------------------------
\*  INI parser
\* ------------------------------------------------------------------------
TC_UNKNOWN == "TC_UNKNOWN"

strToTC(t) ==
    IF t = "U08" \/ t = "UBYTE" THEN "TC_U08"
    ELSE IF t = "S08" \/ t = "BYTE" THEN "TC_S08"
    ELSE IF t = "U16" \/ t = "UINT" THEN "TC_U16"
    ELSE IF t = "S16" \/ t = "INT" THEN "TC_S16"
    ELSE IF t = "U32" \/ t = "ULONG" THEN "TC_U32"
    ELSE IF t = "S32" \/ t = "LONG" THEN "TC_S32"
    ELSE IF t = "F32" \/ t = "FLOAT" THEN "TC_F32"
    ELSE TC_UNKNOWN

\* Bytes decodeChannel reads for a type code (the switch of decodeChannel).
Width(tc) ==
    IF tc \in {"TC_U08", "TC_S08"} THEN 1
    ELSE IF tc \in {"TC_U16", "TC_S16"} THEN 2
    ELSE IF tc \in {"TC_U32", "TC_S32", "TC_F32"} THEN 4
    ELSE 0

\* The copy loop of consumeField: p is the text still to read, out the
\* characters stored so far.  Result: the stored field and the text left.
RECURSIVE fieldLoop(_, _, _, _)
fieldLoop(p, out, quoted, outLen) ==
    IF p = "" THEN [out |-> out, rest |-> p]
    ELSE IF quoted /\ Ch(p, 1) = "\"" THEN [out |-> out, rest |-> From(p, 2)]
    ELSE IF ~quoted /\ Ch(p, 1) = "," THEN [out |-> out, rest |-> p]
    ELSE fieldLoop(From(p, 2),
                   IF Len(out) < outLen - 1 THEN out \o Ch(p, 1) ELSE out,
                   quoted, outLen)

\* if (*p == ',') p++;
skipComma(p) == IF Ch(p, 1) = "," THEN From(p, 2) ELSE p

\* consumeField after the copy loop: [out, rest]
fieldEnd(r) == [out |-> trimRight(r.out), rest |-> skipComma(skipBlanks(r.rest))]

\* consumeField from the first character that is not a blank
fieldFrom(p1, outLen) ==
    fieldEnd(fieldLoop(IF Ch(p1, 1) = "\"" THEN From(p1, 2) ELSE p1, "",
                       Ch(p1, 1) = "\"", outLen))

consumeField(p0, outLen) == fieldFrom(skipBlanks(p0), outLen)

\* Name: the characters before '=' that are not blanks, at most NAME_LEN-1.
RECURSIVE nameBefore(_, _, _, _)
nameBefore(line, i, eq, acc) ==
    IF i >= eq \/ Len(acc) >= NAME_LEN - 1 THEN acc
    ELSE nameBefore(line, i + 1, eq,
                    IF IsBlank(Ch(line, i)) THEN acc ELSE acc \o Ch(line, i))

\* if (offset >= OCH_BUF_SIZE) return false;
OffsetAccepted(offset, tc) == offset < OCH_BUF_SIZE

NoChannel == [name |-> "", unit |-> "", offset |-> 0, tc |-> TC_UNKNOWN, mul |-> "", add |-> ""]

Rejected == [ok |-> FALSE, ch |-> NoChannel]

\* parseChannelLine, one step per field; each step is handed what the code
\* has in ch and p at that point.  MUL and ADD keep the text of their field
\* (atof is not modelled).
chanAdd(ch, fM) ==
    [ok |-> TRUE,
     ch |-> [ch EXCEPT !.mul = fM.out, !.add = consumeField(fM.rest, FIELD_LEN).out]]

chanMul(ch, fU) == chanAdd([ch EXCEPT !.unit = fU.out], consumeField(fU.rest, FIELD_LEN))

chanUnit(ch, offset, rest) ==
    IF ~OffsetAccepted(offset, ch.tc) THEN Rejected
    ELSE chanMul([ch EXCEPT !.offset = offset], consumeField(rest, UNIT_LEN))

chanOffset(ch, tc, fO) ==
    IF tc = TC_UNKNOWN THEN Rejected
    ELSE chanUnit([ch EXCEPT !.tc = tc], ToU16(atoi(fO.out)), fO.rest)

chanType(ch, fT) == chanOffset(ch, strToTC(fT.out), consumeField(fT.rest, FIELD_LEN))

chanScalar(name, p) ==
    IF name = "" THEN Rejected
    ELSE IF ~startsWith(p, "scalar") THEN Rejected
    ELSE chanType([NoChannel EXCEPT !.name = name],
                  consumeField(skipComma(skipBlanks(From(p, 7))), FIELD_LEN))

chanName(line, eq) ==
    IF eq = 0 THEN Rejected
    ELSE chanScalar(nameBefore(line, 1, eq, ""), skipBlanks(From(line, eq + 1)))

\* parseChannelLine: [ok, ch]
parseChannelLine(line) == chanName(line, strchr(line, "="))

\* findChannelByName: 0-based index of the first channel called name, -1 if
\* none.  The loop over i = 0 .. numChannels-1 returns at the least i whose
\* name matches.
firstOf(hits) == IF hits = {} THEN 0 - 1 ELSE (CHOOSE k \in hits : \A j \in hits : k <= j) - 1

findChannelByName(chs, name) == firstOf({k \in DOMAIN chs : chs[k].name = name})

\* The line as parseINI sees it: comment stripped, trimmed on both sides.
stripComment(raw, sc) == IF sc > 0 THEN SubSeq(raw, 1, sc - 1) ELSE raw

cleanLine(raw) == skipBlanks(trimRight(stripComment(raw, strchr(raw, ";"))))

\* if (ochBlockSize == 0 && strncmp(line, "ochBlockSize", 12) == 0)
BlockSizeDirectiveCounts(cur, line) == cur = 0 /\ startsWith(line, "ochBlockSize")

\* if (eq) ochBlockSize = (uint16_t)atoi(eq + 1);
blockSizeValue(cur, line, eq) == IF eq > 0 THEN ToU16(atoi(From(line, eq + 1))) ELSE cur

blockSizeStep(cur, line) ==
    IF BlockSizeDirectiveCounts(cur, line) THEN blockSizeValue(cur, line, strchr(line, "="))
    ELSE cur

\* if (parseChannelLine(line, ch)) channels[numChannels++] = ch;
addChannel(chs, r) == IF r.ok THEN Append(chs, r.ch) ELSE chs

\* A variant of channelStep that does not test numChannels (C28 must tell
\* them apart).
channelStepUnbounded(chs, inOCH, line) ==
    IF inOCH THEN addChannel(chs, parseChannelLine(line)) ELSE chs

channelStep(chs, inOCH, line) ==
    IF inOCH /\ Len(chs) < MAX_CHANNELS THEN addChannel(chs, parseChannelLine(line)) ELSE chs

\* A [Datalog] entry: "entry = channelName, "Label", float|int, ..."
addEntry(dls, idx, fL, fT) ==
    IF idx >= 0
    THEN Append(dls, [label |-> fL.out, chanIdx |-> idx, isFloat |-> (fT.out = "float")])
    ELSE dls

entryLabel(dls, idx, fL) == addEntry(dls, idx, fL, consumeField(fL.rest, TYPESTR_LEN))

entryName(dls, chs, fN) ==
    entryLabel(dls, findChannelByName(chs, fN.out), consumeField(fN.rest, LABEL_LEN))

entryAfterEq(dls, chs, line, eq) ==
    IF eq > 0 THEN entryName(dls, chs, consumeField(From(line, eq + 1), NAME_LEN)) ELSE dls

datalogStep(dls, chs, inDL, line) ==
    IF inDL /\ Len(dls) < MAX_CHANNELS /\ startsWith(line, "entry")
    THEN entryAfterEq(dls, chs, line, strchr(line, "="))
    ELSE dls

\* The statements of the loop body after the section test, given the channel
\* table as the channel statement leaves it.
lineTables(acc, chs, line) ==
    [acc EXCEPT !.ochBlockSize = blockSizeStep(acc.ochBlockSize, line),
                !.channels = chs,
                !.dlChannels = datalogStep(acc.dlChannels, chs, acc.inDL, line)]

\* One iteration of the while (readLine(...)) loop of parseINI, line cleaned.
parseClean(acc, line) ==
    IF line = "" THEN acc
    ELSE IF Ch(line, 1) = "["
    THEN [acc EXCEPT !.inOCH = startsWith(line, "[OutputChannels]"),
                     !.inDL = startsWith(line, "[Datalog]")]
    ELSE lineTables(acc, channelStep(acc.channels, acc.inOCH, line), line)

parseLine(acc, raw) == parseClean(acc, cleanLine(raw))

RECURSIVE parseLines(_, _, _)
parseLines(acc, lines, i) ==
    IF i > Len(lines) THEN acc ELSE parseLines(parseLine(acc, lines[i]), lines, i + 1)

\* A variant of SchemaValid without the capacity check (C7 must tell them apart).
SchemaValidNoCapacity(blockSize, nChannels) == blockSize # 0 /\ nChannels # 0

\* The three checks that end parseINI.
SchemaValid(blockSize, nChannels) ==
    /\ blockSize # 0
    /\ blockSize <= OCH_BUF_SIZE
    /\ nChannels # 0

\* What parseINI leaves in the globals, and its return value.
parseResult(acc) ==
    [ok |-> SchemaValid(acc.ochBlockSize, Len(acc.channels)),
     channels |-> acc.channels,
     ochBlockSize |-> acc.ochBlockSize,
     dlChannels |-> acc.dlChannels]

\* parseINI on a file that opened
parseINI(lines) ==
    parseResult(parseLines([channels |-> <<>>, ochBlockSize |-> 0, dlChannels |-> <<>>,
                            inOCH |-> FALSE, inDL |-> FALSE], lines, 1))

\* ------------------------------------------------------------------------
\*  INI file name from the signature hash
\* ------------------------------------------------------------------------
\* XOR of two naturals below 2^bits.
RECURSIVE BitXor(_, _, _)
BitXor(a, b, bits) ==
    IF bits = 0 THEN 0
    ELSE ((a + b) % 2) + 2 * BitXor(a \div 2, b \div 2, bits - 1)

\* djb2 on uint32_t, kept as two 16-bit halves: h = ((h << 5) + h) ^ byte.
djb2Step(h, c) ==
    LET lo33 == h.lo * 33
        hi33 == h.hi * 33 + (lo33 \div 65536)
    IN  [hi |-> hi33 % 65536, lo |-> BitXor(lo33 % 65536, c, 16)]

RECURSIVE djb2From(_, _, _)
djb2From(sig, i, h) ==
    IF i > Len(sig) THEN h ELSE djb2From(sig, i + 1, djb2Step(h, sig[i]))

\* 5381 = 0x00001505
djb2(sig) == djb2From(sig, 1, [hi |-> 0, lo |-> 5381])

HexDigits == "0123456789ABCDEF"

Hex4(n) ==
    Ch(HexDigits, (n \div 4096) + 1) \o Ch(HexDigits, ((n \div 256) % 16) + 1)
        \o Ch(HexDigits, ((n \div 16) % 16) + 1) \o Ch(HexDigits, (n % 16) + 1)

\* snprintf(out, outLen, "%08lX.INI", djb2(sig))
sigToFilename(sig) == LET h == djb2(sig) IN Hex4(h.hi) \o Hex4(h.lo) \o ".INI"

\* ------------------------------------------------------------------------
\*  RusEFI communication
\* ------------------------------------------------------------------------
\* What the device sends after a request: byte k of bytes arrives
\* first + (k-1)*gap ms after the read began; nothing arrives after the last.
Reply(first, gap, bytes) == [first |-> first, gap |-> gap, bytes |-> bytes]

NoReply == Reply(0, 0, <<>>)

ArrivesAt(rx, k) == rx.first + (k - 1) * rx.gap

\* userial.available() when the read begins
Available(rx) == Len(rx.bytes) > 0 /\ rx.first = 0

\* A variant of LineByteStored that stores nothing (C19 must tell them apart).
LineByteDropped(c, i, maxLen) == FALSE

\* if (c >= 0x20 && i < maxLen - 1) { dst[i++] = c; deadline = millis() + 500; }
LineByteStored(c, i, maxLen) == c >= 32 /\ i < maxLen - 1

\* The loops of readResponse from byte k on; dst holds the bytes stored so
\* far, deadline is relative to the entry of readResponse.
RECURSIVE readLoop(_, _, _, _, _)
readLoop(rx, k, dst, deadline, maxLen) ==
    IF k > Len(rx.bytes) \/ ArrivesAt(rx, k) >= deadline
    THEN [ok |-> Len(dst) > 0, dst |-> dst, dur |-> deadline]
    ELSE LET c == rx.bytes[k] IN
         IF c = 0 \/ c = 10
         THEN [ok |-> Len(dst) > 0, dst |-> dst, dur |-> ArrivesAt(rx, k)]
         ELSE IF LineByteStored(c, Len(dst), maxLen)
         THEN readLoop(rx, k + 1, Append(dst, c), ArrivesAt(rx, k) + LINE_EXTEND_MS, maxLen)
         ELSE readLoop(rx, k + 1, dst, deadline, maxLen)

\* readResponse: [ok, dst, dur], dur the time spent in it.
readResponse(rx, maxLen, timeoutMs) == readLoop(rx, 1, <<>>, timeoutMs, maxLen)

\* The receive loop of requestOCH from byte k on; rxBuf holds the rx bytes
\* stored so far.
RECURSIVE ochLoop(_, _, _, _, _)
ochLoop(rx, k, rxBuf, deadline, toRead) ==
    IF Len(rxBuf) >= toRead THEN [rxBuf |-> rxBuf, dur |-> ArrivesAt(rx, k - 1)]
    ELSE IF k > Len(rx.bytes) \/ ArrivesAt(rx, k) >= deadline
    THEN [rxBuf |-> rxBuf, dur |-> deadline]
    ELSE ochLoop(rx, k + 1, Append(rxBuf, rx.bytes[k]), ArrivesAt(rx, k) + OCH_EXTEND_MS, toRead)

\* crc32 on uint32_t, kept as two 16-bit halves [hi, lo]:
\* poly 0xEDB88320, init 0xFFFFFFFF, result inverted.
CRC_POLY_HI == 60856
CRC_POLY_LO == 33568
CRC_INIT_HALF == 65535

\* crc >> 1
crcShift(crc) == [hi |-> crc.hi \div 2, lo |-> (crc.lo \div 2) + (crc.hi % 2) * 32768]

\* A variant of crcPoly with the polynomial of another CRC (C16 and C17 must
\* tell them apart).
crcPolyCastagnoli(crc) ==
    [hi |-> BitXor(crc.hi, 33528, 16), lo |-> BitXor(crc.lo, 30840, 16)]

\* crc ^ 0xEDB88320
crcPoly(crc) ==
    [hi |-> BitXor(crc.hi, CRC_POLY_HI, 16), lo |-> BitXor(crc.lo, CRC_POLY_LO, 16)]

\* for (int i = 0; i < 8; i++)
\*     crc = (crc & 1) ? ((crc >> 1) ^ 0xEDB88320) : (crc >> 1);
RECURSIVE crcBits(_, _)
crcBits(crc, n) ==
    IF n = 0 THEN crc
    ELSE IF crc.lo % 2 = 1 THEN crcBits(crcPoly(crcShift(crc)), n - 1)
    ELSE crcBits(crcShift(crc), n - 1)

\* crc ^= *data++; followed by the eight shifts
crcByte(crc, b) == crcBits([hi |-> crc.hi, lo |-> BitXor(crc.lo, b, 16)], 8)

RECURSIVE crcFrom(_, _, _)
crcFrom(data, i, crc) ==
    IF i > Len(data) THEN crc ELSE crcFrom(data, i + 1, crcByte(crc, data[i]))

\* return ~crc;
crcNot(crc) == [hi |-> 65535 - crc.hi, lo |-> 65535 - crc.lo]

crc32(data) == crcNot(crcFrom(data, 1, [hi |-> CRC_INIT_HALF, lo |-> CRC_INIT_HALF]))

\* The self-test of setup(): crc32("123456789") against 0xCBF43926, and what
\* it prints.
CRC_CHECK_HI == 52212
CRC_CHECK_LO == 14630

TestVector == <<49, 50, 51, 52, 53, 54, 55, 56, 57>>

SelfTest ==
    IF crc32(TestVector) = [hi |-> CRC_CHECK_HI, lo |-> CRC_CHECK_LO] THEN "OK" ELSE "WRONG"

\* uint8_t pl[5] = {'O', offL, offH, cntL, cntH};
OCHPayload(blockSize) == <<79, 0, 0, blockSize % 256, (blockSize \div 256) % 256>>

\* A variant of OCHFrameOf with the checksum least significant byte first
\* (C17 must tell them apart).
OCHFrameCrcLittleEndian(pl, cs) ==
    <<0, 5>> \o pl \o <<cs.lo % 256, cs.lo \div 256, cs.hi % 256, cs.hi \div 256>>

\* uint8_t frame[11] = {0x00, 0x05, pl..., checksum >> 24, >> 16, >> 8, >> 0};
OCHFrameOf(pl, cs) ==
    <<0, 5>> \o pl \o <<cs.hi \div 256, cs.hi % 256, cs.lo \div 256, cs.lo % 256>>

\* The 11 bytes requestOCH writes for the command "O".
OCHFrame(blockSize) == OCHFrameOf(OCHPayload(blockSize), crc32(OCHPayload(blockSize)))

\* A variant of OCHAccepted without the status test (C5 must tell them apart).
OCHAcceptedAnyStatus(rxBuf, blockSize) == Len(rxBuf) >= ToU16(blockSize + 3)

\* if (rx >= (uint16_t)(ochBlockSize + 3) && rxBuf[2] == 0x00)
OCHAccepted(rxBuf, blockSize) ==
    /\ Len(rxBuf) >= ToU16(blockSize + 3)
    /\ rxBuf[3] = 0

\* A variant of CopyBlock that copies from the start of the response (C20
\* must tell them apart).
CopyFromPrefix(buf, rxBuf, blockSize) ==
    SubSeq(rxBuf, 1, blockSize)
        \o (IF Len(buf) > blockSize THEN SubSeq(buf, blockSize + 1, Len(buf)) ELSE <<>>)

\* memcpy(ochBuffer, rxBuf + 3, ochBlockSize).  The buffer is kept as the
\* bytes written so far; the rest of the array still holds its initial zeros.
CopyBlock(buf, rxBuf, blockSize) ==
    SubSeq(rxBuf, 4, 3 + blockSize)
        \o (IF Len(buf) > blockSize THEN SubSeq(buf, blockSize + 1, Len(buf)) ELSE <<>>)

\* A variant of OCHCommands that repeats the mode switch (C4 must tell them apart).
OCHCommandsWithModeSwitch == <<"F", "O">>

\* Commands requestOCH writes to the device, by command byte: "O" stands for
\* the frame OCHFrame(ochBlockSize).
OCHCommands == <<"O">>

\* requestOCH: [ok, buf, dur, sent, rxBuf].
requestOCH(blockSize, buf, rx) ==
    LET r == ochLoop(rx, 1, <<>>, OCH_DEADLINE_MS, ToU16(blockSize + 7))
        ok == Len(r.rxBuf) # 0 /\ OCHAccepted(r.rxBuf, blockSize)
    IN  [ok |-> ok,
         buf |-> IF ok THEN CopyBlock(buf, r.rxBuf, blockSize) ELSE buf,
         dur |-> r.dur,
         sent |-> OCHCommands,
         rxBuf |-> r.rxBuf]

\* ------------------------------------------------------------------------
\*  Blob decoding and rows
\* ------------------------------------------------------------------------
\* ochBuffer[i]: a byte written by requestOCH, an initial zero, or, past the
\* end of the array, whatever lies there (junk).
BufByte(buf, i, junk) ==
    IF i < Len(buf) THEN buf[i + 1]
    ELSE IF i < OCH_BUF_SIZE THEN 0
    ELSE junk

\* decodeChannel: the bytes it reads at ch.offset (the scaling raw * mul + add
\* is kept as the pair of coefficient texts).
decodeChannel(buf, ch, junk) ==
    [raw |-> [k \in 1..Width(ch.tc) |-> BufByte(buf, ch.offset + k - 1, junk)],
     tc |-> ch.tc, mul |-> ch.mul, add |-> ch.add]

\* A variant of OutputColumns that ignores [Datalog] (C11 must tell them apart).
OutputColumnsAll(chs, dls) ==
    [i \in 1..Len(chs) |-> [ch |-> chs[i], label |-> chs[i].name, asFloat |-> TRUE]]

\* Columns of the header and of every row: [channel, label, asFloat].
OutputColumns(chs, dls) ==
    IF Len(dls) > 0
    THEN [i \in 1..Len(dls) |->
            [ch |-> chs[dls[i].chanIdx + 1], label |-> dls[i].label, asFloat |-> dls[i].isFloat]]
    ELSE [i \in 1..Len(chs) |-> [ch |-> chs[i], label |-> chs[i].name, asFloat |-> TRUE]]

\* writeHeader: the label row and the unit row.
writeHeader(chs, dls) ==
    LET cols == OutputColumns(chs, dls) IN
    << <<"Time">> \o [i \in 1..Len(cols) |-> cols[i].label],
       <<"s">> \o [i \in 1..Len(cols) |-> cols[i].ch.unit] >>

\* writeRow: the cells after the time column.
writeRow(buf, chs, dls, junk) ==
    LET cols == OutputColumns(chs, dls) IN
    [i \in 1..Len(cols) |->
        [val |-> decodeChannel(buf, cols[i].ch, junk), asFloat |-> cols[i].asFloat]]

\* ------------------------------------------------------------------------
\*  The SD card: INI files by name, each a sequence of lines
\* ------------------------------------------------------------------------
SigA == <<65>>
SigB == <<66>>

FileGood ==
    << "; two channels, relabelled by [Datalog]",
       "ochBlockSize = 2",
       "[OutputChannels]",
       "\trpm = scalar, U08, 0, \"RPM\", 1, 0",
       "clt = scalar, S08, 1, \"deg C\", 0.5, -40",
       "flags = bits, U08, 1, [0:1]",
       "[Datalog]",
       "entry = clt, \"Coolant\", float, \"%.1f\"",
       "entry = nope, \"Nope\", int, \"%d\"",
       "entry = rpm, \"RPM\", int, \"%d\"" >>

FileTwoSizes ==
    << "ochBlockSize = 2",
       "[OutputChannels]",
       "ochBlockSize = 1",
       "rpm = scalar, U16, 0, \"RPM\", 1, 0",
       "[Datalog]",
       "entry = nope, \"Nope\", int, \"%d\"" >>

FileFirstZero ==
    << "ochBlockSize = 0",
       "ochBlockSize = 2",
       "[OutputChannels]",
       "rpm = scalar, U16, 0, \"RPM\", 1, 0" >>

FileWide ==
    << "[OutputChannels]",
       "a = scalar, U08, 0, \"\", 1, 0",
       "b = scalar, U16, 5, \"\", 1, 0",
       "c = scalar, U32, 2947, \"\", 1, 0",
       "d = scalar, U08, 65537, \"\", 1, 0",
       "e = scalar, U08, 2948, \"\", 1, 0",
       "ochBlockSize = 1" >>

FileOnlyDropped ==
    << "ochBlockSize = 2",
       "[OutputChannels]",
       "e = scalar, U08, 2948, \"\", 1, 0",
       "f = scalar, XYZ, 0, \"\", 1, 0" >>

FileNoSize ==
    << "[OutputChannels]",
       "rpm = scalar, U16, 0, \"RPM\", 1, 0" >>

FileOversize ==
    << "ochBlockSize = 2949",
       "[OutputChannels]",
       "rpm = scalar, U16, 0, \"RPM\", 1, 0" >>

DEFAULT_INI == "DEFAULT.INI"

\* The cards the logger may be started with.
Cards ==
    << [n \in {sigToFilename(SigA)} |-> FileGood],
       [n \in {DEFAULT_INI} |-> FileWide],
       [n \in {sigToFilename(SigA), DEFAULT_INI} |->
            IF n = DEFAULT_INI THEN FileGood ELSE FileFirstZero],
       [n \in {sigToFilename(SigB), DEFAULT_INI} |->
            IF n = DEFAULT_INI THEN FileOnlyDropped ELSE FileTwoSizes],
       [n \in {sigToFilename(SigA), sigToFilename(SigB)} |->
            IF n = sigToFilename(SigA) THEN FileNoSize ELSE FileOversize],
       [n \in {} |-> <<>>] >>

\* ------------------------------------------------------------------------
\*  Inputs of one loop() iteration
\* ------------------------------------------------------------------------
\* Serial.read() on the USB device port ("none": nothing available)
SerialInput == {"none", "s", "S", "x"}

\* What the device may answer to 'S'
SigReplies ==
    { NoReply,
      Reply(0, 0, <<65, 0>>),
      Reply(0, 0, <<1, 66, 10>>),
      Reply(0, 600, <<65, 66, 0>>),
      Reply(0, 0, <<10>>) }

\* What the device may answer to 'F'
FReplies == { NoReply, Reply(0, 0, <<48, 48, 49, 0>>) }

\* What the device may answer to a telemetry request for blockSize bytes:
\* a prefix of [len hi, len lo, status, data..., 4 checksum bytes, 1 extra].
Prefix(q, n) == SubSeq(q, 1, Min(n, Len(q)))

OCHFrames(blockSize) ==
    { <<0, blockSize + 1, f[1]>> \o [k \in 1..blockSize |-> IF k = 1 THEN f[2] ELSE f[3]]
          \o <<17, 34, 51, 68, 85>> :
        f \in {<<0, 7, 7>>, <<0, 7, 0>>, <<1, 9, 9>>} }

OCHReplies(blockSize) ==
    { Reply(t[1], t[2], Prefix(f, n)) :
        t \in {<<0, 0>>, <<0, 150>>, <<0, 200>>, <<1450, 0>>},
        f \in OCHFrames(blockSize),
        n \in {0, blockSize + 2, blockSize + 3, blockSize + 8} }

\* What a read past the end of ochBuffer may find; one value when no output
\* column reaches past the end.
JunkValues(chs) ==
    IF \E i \in DOMAIN chs : chs[i].offset + Width(chs[i].tc) > OCH_BUF_SIZE
    THEN {0, 255}
    ELSE {0}

\* ------------------------------------------------------------------------
\*  State
\* ------------------------------------------------------------------------
VARIABLES
    pc,           \* "setup" before setup() has run, "loop" afterwards
    state,        \* State
    sinceEnter,   \* millis() - stateEnterMs
    sincePoll,    \* millis() - lastPollMs
    sinceSync,    \* millis() - lastSyncMs
    rowCount,
    logOpen,
    signature,
    iniFilename,
    channels,     \* channels[0 .. numChannels-1]
    dlChannels,   \* dlChannels[0 .. numDLChannels-1]
    ochBlockSize,
    ochBuffer,
    userial,      \* the USB serial device is present
    sd,           \* index of the card in Cards
    logHeader,    \* the header rows of the open log file
    lastRow,      \* the cells of the last data row of the open log file
    unsynced,     \* the open log holds rows not yet synced to the card
    sentF,        \* 'F' commands sent since the session last left WaitDevice
    ev            \* what the last step did

vars == << pc, state, sinceEnter, sincePoll, sinceSync, rowCount, logOpen, signature,
           iniFilename, channels, dlChannels, ochBlockSize, ochBuffer, userial, sd,
           logHeader, lastRow, unsynced, sentF, ev >>

numChannels == Len(channels)
numDLChannels == Len(dlChannels)

States == {"WaitDevice", "AssertDTR", "GetSignature", "LoadINI", "Logging", "Stopped",
           "ErrorSD", "ErrorINI"}

\* The record kept in ev: the step taken, the state it began in, whether
\* loop() processed a stop command, the commands written to the device, the
\* outcome of the telemetry poll, the bytes that poll received (rx), the INI
\* file parsed, and what the CRC self-test printed (crc).
Event(step, stop, sent, poll, ini) ==
    [step |-> step, from |-> state, stop |-> stop, sent |-> sent, poll |-> poll,
     rx |-> <<>>, ini |-> ini, crc |-> ""]

Quiet(step) == Event(step, FALSE, <<>>, "none", "")

\* The time-out a state compares millis() - stateEnterMs with (0: none).
EnterWait(st) ==
    IF st = "AssertDTR" THEN DTR_SETTLE_MS
    ELSE IF st = "GetSignature" THEN SIG_TIMEOUT_MS
    ELSE IF st = "ErrorINI" THEN ERR_REMIND_MS
    ELSE 0

\* The clock is observed in steps of TickMs(state): the poll interval while
\* Logging, a fraction of the state's time-out elsewhere.
TickMs(st) ==
    IF st = "Logging" THEN POLL_INTERVAL_MS ELSE EnterWait(st) \div TicksPerWait

\* An elapsed time is tracked only in the states that read it, and there up
\* to the first value past the time-out it is compared with.
EnterCap(st) == IF EnterWait(st) = 0 THEN 0 ELSE EnterWait(st) + TickMs(st)

PollCap(st) == IF st = "Logging" THEN POLL_INTERVAL_MS ELSE 0

SyncCap(st) == IF st = "Logging" THEN SYNC_INTERVAL_MS ELSE 0

Init ==
    /\ pc = "setup"
    /\ state = "WaitDevice"
    /\ sinceEnter = 0
    /\ sincePoll = 0
    /\ sinceSync = 0
    /\ rowCount = 0
    /\ logOpen = FALSE
    /\ signature = <<>>
    /\ iniFilename = ""
    /\ channels = <<>>
    /\ dlChannels = <<>>
    /\ ochBlockSize = 0
    /\ ochBuffer = <<>>
    /\ userial = FALSE
    /\ sd \in 1..Len(Cards)
    /\ logHeader = <<>>
    /\ lastRow = <<>>
    /\ unsynced = FALSE
    /\ sentF = 0
    /\ ev = Quiet("init")

schemaVars == << channels, dlChannels, ochBlockSize >>
logVars == << rowCount, logOpen, logHeader, lastRow, unsynced >>
timeVars == << sinceEnter, sincePoll, sinceSync >>

\* setup(): the CRC self-test is printed, the SD card initialises or not.
Setup ==
    /\ pc = "setup"
    /\ pc' = "loop"
    /\ \E sdOk \in BOOLEAN : state' = IF sdOk THEN "WaitDevice" ELSE "ErrorSD"
    /\ sinceEnter' = 0
    /\ ev' = [Quiet("setup") EXCEPT !.crc = SelfTest]
    /\ UNCHANGED << sincePoll, sinceSync, logVars, signature, iniFilename, schemaVars,
                    ochBuffer, userial, sd, sentF >>

\* Time passes between two iterations of loop().
Tick ==
    /\ pc = "loop"
    /\ sinceEnter' = Min(sinceEnter + TickMs(state), EnterCap(state))
    /\ sincePoll' = Min(sincePoll + TickMs(state), PollCap(state))
    /\ sinceSync' = Min(sinceSync + TickMs(state), SyncCap(state))
    /\ ev' = Quiet("env")
    /\ UNCHANGED << pc, state, logVars, signature, iniFilename, schemaVars, ochBuffer,
                    userial, sd, sentF >>

\* The ECU is plugged in / unplugged (seen by myusb.Task()).
Attach ==
    /\ pc = "loop"
    /\ ~userial
    /\ userial' = TRUE
    /\ ev' = Quiet("env")
    /\ UNCHANGED << pc, state, timeVars, logVars, signature, iniFilename, schemaVars,
                    ochBuffer, sd, sentF >>

Detach ==
    /\ pc = "loop"
    /\ userial
    /\ userial' = FALSE
    /\ ev' = Quiet("env")
    /\ UNCHANGED << pc, state, timeVars, logVars, signature, iniFilename, schemaVars,
                    ochBuffer, sd, sentF >>

\* ------------------------------------------------------------------------
\*  loop()
\* ------------------------------------------------------------------------
\* if (cmd == 's' || cmd == 'S')
IsStop(cmd) == cmd = "s" \/ cmd = "S"

\* The state after the serial-command block at the top of loop().
CmdState(cmd) == IF IsStop(cmd) THEN "Stopped" ELSE state

\* A variant of DisconnectSeen that looks at Logging only (C2 must tell them apart).
DisconnectSeenLoggingOnly(st) == ~userial /\ st = "Logging"

\* A variant of DisconnectSeen that does not exempt Stopped (C24 must tell
\* them apart).
DisconnectSeenWhenStopped(st) == ~userial /\ st # "WaitDevice"

\* if (!userial && state != State::WaitDevice && state != State::Stopped)
DisconnectSeen(st) == ~userial /\ st # "WaitDevice" /\ st # "Stopped"

\* A variant of StopClosesLog that never closes the log (C12 must tell them apart).
StopLeavesLog(cmd) == FALSE

\* if (state == State::Logging) { if (logOpen) { logFile.sync(); logFile.close(); ... } }
StopClosesLog(cmd) == IsStop(cmd) /\ state = "Logging" /\ logOpen

\* A stop command, or an iteration in Stopped: the log is synced and closed
\* if the session was Logging, and case State::Stopped does nothing.
LoopStopped(cmd) ==
    /\ pc = "loop"
    /\ CmdState(cmd) = "Stopped"
    /\ state' = "Stopped"
    /\ logOpen' = IF StopClosesLog(cmd) THEN FALSE ELSE logOpen
    /\ unsynced' = IF StopClosesLog(cmd) THEN FALSE ELSE unsynced
    /\ logHeader' = IF IsStop(cmd) THEN <<>> ELSE logHeader
    /\ lastRow' = IF IsStop(cmd) THEN <<>> ELSE lastRow
    /\ sinceEnter' = 0
    /\ sincePoll' = 0
    /\ sinceSync' = 0
    /\ ev' = Event("loop", IsStop(cmd), <<>>, "none", "")
    /\ UNCHANGED << pc, rowCount, signature, iniFilename, schemaVars, ochBuffer, userial,
                    sd, sentF >>

\* if (state == State::ErrorSD) return;
LoopErrorSD(cmd) ==
    /\ pc = "loop"
    /\ CmdState(cmd) = "ErrorSD"
    /\ ev' = Event("loop", FALSE, <<>>, "none", "")
    /\ UNCHANGED << pc, state, timeVars, logVars, signature, iniFilename, schemaVars,
                    ochBuffer, userial, sd, sentF >>

\* A variant of onDisconnect that keeps the schema (C1 must tell them apart).
onDisconnectKeepsSchema ==
    /\ logOpen' = FALSE
    /\ unsynced' = IF logOpen THEN FALSE ELSE unsynced
    /\ UNCHANGED << channels, dlChannels, ochBlockSize >>
    /\ signature' = <<>>
    /\ state' = "WaitDevice"
    /\ sinceEnter' = 0
    /\ sincePoll' = 0
    /\ sinceSync' = 0
    /\ logHeader' = <<>>
    /\ lastRow' = <<>>

\* A variant of onDisconnect that does not close the log (C27 must tell them
\* apart).
onDisconnectLeavesLog ==
    /\ UNCHANGED << logOpen, unsynced, logHeader, lastRow >>
    /\ channels' = <<>>
    /\ dlChannels' = <<>>
    /\ ochBlockSize' = 0
    /\ signature' = <<>>
    /\ state' = "WaitDevice"
    /\ sinceEnter' = 0
    /\ sincePoll' = 0
    /\ sinceSync' = 0

\* onDisconnect()
onDisconnect ==
    /\ logOpen' = FALSE
    /\ unsynced' = IF logOpen THEN FALSE ELSE unsynced
    /\ channels' = <<>>
    /\ dlChannels' = <<>>
    /\ ochBlockSize' = 0
    /\ signature' = <<>>
    /\ state' = "WaitDevice"
    /\ sinceEnter' = 0
    /\ sincePoll' = 0
    /\ sinceSync' = 0
    /\ logHeader' = <<>>
    /\ lastRow' = <<>>

LoopDisconnect(cmd) ==
    /\ pc = "loop"
    /\ CmdState(cmd) # "ErrorSD"
    /\ DisconnectSeen(CmdState(cmd))
    /\ onDisconnect
    /\ ev' = Event("loop", FALSE, <<>>, "none", "")
    /\ UNCHANGED << pc, rowCount, iniFilename, ochBuffer, userial, sd, sentF >>

\* case State::WaitDevice
LoopWaitDevice(cmd) ==
    /\ pc = "loop"
    /\ CmdState(cmd) = "WaitDevice"
    /\ IF userial
       THEN /\ state' = "AssertDTR"
            /\ sinceEnter' = 0
            /\ sentF' = 0
       ELSE UNCHANGED << state, sinceEnter, sentF >>
    /\ ev' = Event("loop", FALSE, <<>>, "none", "")
    /\ UNCHANGED << pc, sincePoll, sinceSync, logVars, signature, iniFilename, schemaVars,
                    ochBuffer, userial, sd >>

\* case State::AssertDTR
LoopAssertDTR(cmd) ==
    /\ pc = "loop"
    /\ CmdState(cmd) = "AssertDTR"
    /\ ~DisconnectSeen("AssertDTR")
    /\ IF sinceEnter >= DTR_SETTLE_MS
       THEN /\ state' = "GetSignature"
            /\ sinceEnter' = 0
            /\ ev' = Event("loop", FALSE, <<"S">>, "none", "")
       ELSE /\ UNCHANGED << state, sinceEnter >>
            /\ ev' = Event("loop", FALSE, <<>>, "none", "")
    /\ UNCHANGED << pc, sincePoll, sinceSync, logVars, signature, iniFilename, schemaVars,
                    ochBuffer, userial, sd, sentF >>

\* else if (millis() - stateEnterMs > 4000)
SignatureTimedOut == sinceEnter > SIG_TIMEOUT_MS

\* The commands written when the signature read finds nothing / times out.
SignatureRetry == <<"S">>

\* case State::GetSignature
LoopGetSignature(cmd, rx) ==
    /\ pc = "loop"
    /\ CmdState(cmd) = "GetSignature"
    /\ ~DisconnectSeen("GetSignature")
    /\ IF Available(rx)
       THEN LET r == readResponse(rx, SIG_LEN, SIG_READ_TIMEOUT_MS) IN
            /\ signature' = r.dst
            /\ sinceEnter' = 0
            /\ IF r.ok
               THEN /\ iniFilename' = sigToFilename(r.dst)
                    /\ state' = "LoadINI"
                    /\ ev' = Event("loop", FALSE, <<>>, "none", "")
               ELSE /\ UNCHANGED << iniFilename, state >>
                    /\ ev' = Event("loop", FALSE, SignatureRetry, "none", "")
       ELSE IF SignatureTimedOut
       THEN /\ sinceEnter' = 0
            /\ ev' = Event("loop", FALSE, SignatureRetry, "none", "")
            /\ UNCHANGED << signature, iniFilename, state >>
       ELSE /\ ev' = Event("loop", FALSE, <<>>, "none", "")
            /\ UNCHANGED << signature, iniFilename, state, sinceEnter >>
    /\ UNCHANGED << pc, sincePoll, sinceSync, logVars, schemaVars, ochBuffer, userial, sd,
                    sentF >>

\* The file case State::LoadINI hands to parseINI: the hash-named file if it
\* exists, else DEFAULT.INI if it exists, else none ("").
IniToLoad(card) ==
    IF iniFilename \in DOMAIN card THEN iniFilename
    ELSE IF DEFAULT_INI \in DOMAIN card THEN DEFAULT_INI
    ELSE ""

\* A variant of LoadCommands that asks for the signature again (C25 must tell
\* them apart).
LoadCommandsWithIdentify == <<"F", "k", "S">>

\* The commands written once the schema has parsed: 'F', then the 'k' probe.
LoadCommands == <<"F", "k">>

\* A variant of AfterLoad that does not look at openNextLogFile() (C18 must
\* tell them apart).
AfterLoadIgnoresLog(parseOk, logOk) == IF parseOk THEN "Logging" ELSE "ErrorINI"

\* The state case State::LoadINI enters: Logging when the schema parsed and
\* the log file opened, ErrorINI otherwise.
AfterLoad(parseOk, logOk) == IF parseOk /\ logOk THEN "Logging" ELSE "ErrorINI"

\* A variant of RowCountAtOpen that keeps the count of the previous log (C26
\* must tell them apart).
RowCountKept == rowCount

\* rowCount = 0; when the log has been opened
RowCountAtOpen == 0

\* case State::LoadINI.  fRx is the answer to 'F' (read and logged only),
\* logOk the outcome of openNextLogFile().
LoopLoadINI(cmd, fRx, logOk) ==
    /\ pc = "loop"
    /\ CmdState(cmd) = "LoadINI"
    /\ ~DisconnectSeen("LoadINI")
    /\ LET name == IniToLoad(Cards[sd])
           p == IF name = ""
                THEN [ok |-> FALSE, channels |-> channels, ochBlockSize |-> ochBlockSize,
                      dlChannels |-> dlChannels]
                ELSE parseINI(Cards[sd][name])
           fResp == readResponse(fRx, FRESP_LEN, F_READ_TIMEOUT_MS)
       IN  /\ channels' = p.channels
           /\ dlChannels' = p.dlChannels
           /\ ochBlockSize' = p.ochBlockSize
           /\ sinceEnter' = 0
           /\ state' = AfterLoad(p.ok, logOk)
           /\ IF p.ok
              THEN /\ sentF' = sentF + 1
                   /\ ev' = Event("loop", FALSE, LoadCommands, "none", name)
                   /\ IF logOk
                      THEN /\ logHeader' = writeHeader(p.channels, p.dlChannels)
                           /\ lastRow' = <<>>
                           /\ unsynced' = FALSE
                           /\ logOpen' = TRUE
                           /\ rowCount' = RowCountAtOpen
                           /\ sincePoll' = 0
                           /\ sinceSync' = 0
                      ELSE UNCHANGED << logVars, sincePoll, sinceSync >>
              ELSE /\ ev' = Event("loop", FALSE, <<>>, "none", name)
                   /\ UNCHANGED << logVars, sincePoll, sinceSync, sentF >>
    /\ UNCHANGED << pc, signature, iniFilename, ochBuffer, userial, sd >>

\* A variant of PollDue that polls on every iteration (C6 must tell them apart).
PollAlways == TRUE

\* if (millis() - lastPollMs >= POLL_INTERVAL_MS)
PollDue == sincePoll >= POLL_INTERVAL_MS

\* if (logOpen && (uint32_t)(millis() - lastSyncMs) >= SYNC_INTERVAL_MS)
SyncDue(elapsed) == logOpen /\ elapsed >= SYNC_INTERVAL_MS

\* case State::Logging.  rx is the device's answer to the telemetry request,
\* junk what a read past the end of ochBuffer finds.
LoopLogging(cmd, rx, junk) ==
    /\ pc = "loop"
    /\ CmdState(cmd) = "Logging"
    /\ ~DisconnectSeen("Logging")
    /\ IF PollDue
       THEN LET r == requestOCH(ochBlockSize, ochBuffer, rx)
                syncAt == Min(sinceSync + r.dur, SyncCap("Logging"))
            IN  /\ r.ok => rowCount < MaxRows
                /\ ochBuffer' = r.buf
                /\ sentF' = sentF + Cardinality({i \in DOMAIN r.sent : r.sent[i] = "F"})
                /\ IF r.ok
                   THEN /\ lastRow' = writeRow(r.buf, channels, dlChannels, junk)
                        /\ rowCount' = rowCount + 1
                   ELSE UNCHANGED << lastRow, rowCount >>
                /\ sincePoll' = Min(r.dur, PollCap("Logging"))
                /\ sinceSync' = IF SyncDue(syncAt) THEN 0 ELSE syncAt
                /\ unsynced' = IF SyncDue(syncAt) THEN FALSE ELSE (unsynced \/ r.ok)
                /\ ev' = [Event("loop", FALSE, r.sent, IF r.ok THEN "ok" ELSE "fail", "")
                             EXCEPT !.rx = r.rxBuf]
       ELSE /\ rx = NoReply
            /\ junk = 0
            /\ sinceSync' = IF SyncDue(sinceSync) THEN 0 ELSE sinceSync
            /\ unsynced' = IF SyncDue(sinceSync) THEN FALSE ELSE unsynced
            /\ ev' = Event("loop", FALSE, <<>>, "none", "")
            /\ UNCHANGED << ochBuffer, sentF, lastRow, rowCount, sincePoll >>
    /\ UNCHANGED << pc, state, sinceEnter, logOpen, logHeader, signature, iniFilename,
                    schemaVars, userial, sd >>

\* if (millis() - stateEnterMs > 10000)
RemindDue == sinceEnter > ERR_REMIND_MS

\* case State::ErrorINI
LoopErrorINI(cmd) ==
    /\ pc = "loop"
    /\ CmdState(cmd) = "ErrorINI"
    /\ ~DisconnectSeen("ErrorINI")
    /\ sinceEnter' = IF RemindDue THEN 0 ELSE sinceEnter
    /\ ev' = Event(IF RemindDue THEN "remind" ELSE "loop", FALSE, <<>>, "none", "")
    /\ UNCHANGED << pc, state, sincePoll, sinceSync, logVars, signature, iniFilename,
                    schemaVars, ochBuffer, userial, sd, sentF >>

\* One iteration of loop() with the serial input cmd.
Loop(cmd) ==
    \/ LoopStopped(cmd)
    \/ LoopErrorSD(cmd)
    \/ LoopDisconnect(cmd)
    \/ LoopWaitDevice(cmd)
    \/ LoopAssertDTR(cmd)
    \/ \E rx \in SigReplies : LoopGetSignature(cmd, rx)
    \/ \E fRx \in FReplies, logOk \in BOOLEAN : LoopLoadINI(cmd, fRx, logOk)
    \/ \E rx \in OCHReplies(ochBlockSize), junk \in JunkValues(channels) :
            LoopLogging(cmd, rx, junk)
    \/ LoopErrorINI(cmd)

Next ==
    \/ Setup
    \/ Tick
    \/ Attach
    \/ Detach
    \/ \E cmd \in SerialInput : Loop(cmd)

Spec == Init /\ [][Next]_vars

\* ------------------------------------------------------------------------
\*  A session that nothing interrupts
\* ------------------------------------------------------------------------
\* The file case State::LoadINI picks on card for the signature sig, "" if none.
SchemaFor(card, sig) ==
    IF sigToFilename(sig) \in DOMAIN card THEN sigToFilename(sig)
    ELSE IF DEFAULT_INI \in DOMAIN card THEN DEFAULT_INI
    ELSE ""

\* The cards and signatures for which a schema file exists and parses.
Loadable ==
    { cs \in (1..Len(Cards)) \X {SigA, SigB} :
        /\ SchemaFor(Cards[cs[1]], cs[2]) # ""
        /\ parseINI(Cards[cs[1]][SchemaFor(Cards[cs[1]], cs[2])]).ok }

\* Serial input other than a stop command.
NoStopInput == SerialInput \ {"s", "S"}

\* setup() has run and the SD card has initialised; the ECU may be plugged in.
InitProgress ==
    /\ pc = "loop"
    /\ state = "WaitDevice"
    /\ sinceEnter = 0
    /\ sincePoll = 0
    /\ sinceSync = 0
    /\ rowCount = 0
    /\ logOpen = FALSE
    /\ signature = <<>>
    /\ iniFilename = ""
    /\ channels = <<>>
    /\ dlChannels = <<>>
    /\ ochBlockSize = 0
    /\ ochBuffer = <<>>
    /\ userial \in BOOLEAN
    /\ sd \in {cs[1] : cs \in Loadable}
    /\ logHeader = <<>>
    /\ lastRow = <<>>
    /\ unsynced = FALSE
    /\ sentF = 0
    /\ ev = [Quiet("setup") EXCEPT !.crc = SelfTest]

\* case State::GetSignature when the device's answer, if it is complete,
\* names a schema that the card holds and that parses.
Identify(cmd) ==
    \E rx \in SigReplies :
        /\ readResponse(rx, SIG_LEN, SIG_READ_TIMEOUT_MS).ok =>
               <<sd, readResponse(rx, SIG_LEN, SIG_READ_TIMEOUT_MS).dst>> \in Loadable
        /\ LoopGetSignature(cmd, rx)

\* The device answers: the read finds a string with a printable byte in it.
Answered(cmd) ==
    \E rx \in SigReplies :
        /\ state = "GetSignature"
        /\ Available(rx)
        /\ readResponse(rx, SIG_LEN, SIG_READ_TIMEOUT_MS).ok
        /\ <<sd, readResponse(rx, SIG_LEN, SIG_READ_TIMEOUT_MS).dst>> \in Loadable
        /\ LoopGetSignature(cmd, rx)

\* case State::LoadINI is left by the iteration of loop() that runs it.
LoadDone ==
    /\ pc = "loop"
    /\ state = "LoadINI"
    /\ \E parseOk \in BOOLEAN, logOk \in BOOLEAN : state' = AfterLoad(parseOk, logOk)

\* One iteration of loop() without a stop command, with the ECU present once
\* it has been plugged in, and with openNextLogFile() succeeding.
LoopProgress(cmd) ==
    \/ LoopWaitDevice(cmd)
    \/ LoopAssertDTR(cmd)
    \/ Identify(cmd)
    \/ \E fRx \in FReplies : LoopLoadINI(cmd, fRx, TRUE)
    \/ \E rx \in OCHReplies(ochBlockSize), junk \in JunkValues(channels) :
            LoopLogging(cmd, rx, junk)

NextProgress ==
    \/ Tick
    \/ Attach
    \/ \E cmd \in NoStopInput : LoopProgress(cmd)

\* loop() runs again and again, time passes, and the device answers 'S'.
SpecProgress ==
    /\ InitProgress
    /\ [][NextProgress]_vars
    /\ WF_vars(Tick)
    /\ WF_vars(\E cmd \in NoStopInput : LoopWaitDevice(cmd))
    /\ WF_vars(\E cmd \in NoStopInput : LoopAssertDTR(cmd))
    /\ WF_vars(\E cmd \in NoStopInput : Answered(cmd))
    /\ WF_state(LoadDone)

\* ------------------------------------------------------------------------
\*  requestOCH over whole responses, for small block sizes
\* ------------------------------------------------------------------------
\* Length prefixes and checksums a response may carry: the right prefix for
\* blockSize and wrong ones; arbitrary checksums.
ReplyPrefixes(blockSize) == { <<0, blockSize + 1>>, <<0, 0>>, <<255, 255>> }

ReplyChecksums == { <<17, 34, 51, 68>>, <<0, 0, 0, 0>> }

\* Responses [prefix, status, data, checksum, one byte more], whole or cut
\* short, arriving at once, slowly, late, or late and slowly.
WholeReplies(blockSize) ==
    { Reply(t[1], t[2], Prefix(pre \o <<st>> \o data \o cs \o <<85>>, n)) :
        t \in {<<0, 0>>, <<0, 200>>, <<1450, 0>>, <<1450, 100>>},
        pre \in ReplyPrefixes(blockSize),
        st \in {0, 1},
        data \in [1..blockSize -> {7, 9}],
        cs \in ReplyChecksums,
        n \in {0, 2, blockSize + 2, blockSize + 3, blockSize + 5, blockSize + 8} }

\* ochBuffer before a poll: untouched, or holding an earlier block.
EarlierBlocks(blockSize) == { <<>>, [k \in 1..blockSize |-> 5] }

InitReply ==
    /\ pc = "poll"
    /\ state = "Logging"
    /\ sinceEnter = 0
    /\ sincePoll = POLL_INTERVAL_MS
    /\ sinceSync = 0
    /\ rowCount = 0
    /\ logOpen = TRUE
    /\ signature = SigA
    /\ iniFilename = sigToFilename(SigA)
    /\ channels = << [NoChannel EXCEPT !.name = "a"] >>
    /\ dlChannels = <<>>
    /\ ochBlockSize \in 1..ReplyBlock
    /\ ochBuffer \in EarlierBlocks(ochBlockSize)
    /\ userial = TRUE
    /\ sd = 1
    /\ logHeader = <<>>
    /\ lastRow = <<>>
    /\ unsynced = FALSE
    /\ sentF = 1
    /\ ev = Quiet("init")

\* requestOCH with the response rx.
ReceiveReply(rx) ==
    /\ pc = "poll"
    /\ pc' = "polled"
    /\ LET r == requestOCH(ochBlockSize, ochBuffer, rx) IN
         /\ ochBuffer' = r.buf
         /\ ev' = [Quiet("reply") EXCEPT !.sent = r.sent,
                                          !.poll = IF r.ok THEN "ok" ELSE "fail",
                                          !.rx = r.rxBuf]
    /\ UNCHANGED << state, timeVars, logVars, signature, iniFilename, schemaVars, userial,
                    sd, sentF >>

NextReply == \E rx \in WholeReplies(ochBlockSize) : ReceiveReply(rx)

SpecReply == InitReply /\ [][NextReply]_vars

\* ------------------------------------------------------------------------
\*  The signature read over lines of a few bytes
\* ------------------------------------------------------------------------
\* Bytes a line may hold: the two terminators, a control byte, two letters.
LineBytes == {0, 10, 1, 65, 66}

\* Answers to 'S' of up to LineLen bytes, arriving at once or spaced by less
\* or by more than the 500 ms extension.
LineReplies ==
    { Reply(0, gap, bytes) :
        gap \in {0, 400, 600},
        bytes \in UNION { [1..n -> LineBytes] : n \in 1..LineLen } }

\* 'S' has been written and the session waits in GetSignature.
InitLine ==
    /\ pc = "loop"
    /\ state = "GetSignature"
    /\ sinceEnter = 0
    /\ sincePoll = 0
    /\ sinceSync = 0
    /\ rowCount = 0
    /\ logOpen = FALSE
    /\ signature = <<>>
    /\ iniFilename = ""
    /\ channels = <<>>
    /\ dlChannels = <<>>
    /\ ochBlockSize = 0
    /\ ochBuffer = <<>>
    /\ userial = TRUE
    /\ sd \in 1..Len(Cards)
    /\ logHeader = <<>>
    /\ lastRow = <<>>
    /\ unsynced = FALSE
    /\ sentF = 0
    /\ ev = [Event("loop", FALSE, <<"S">>, "none", "") EXCEPT !.from = "AssertDTR"]

\* case State::GetSignature with an answer waiting.
ReadLine == \E rx \in LineReplies : state = "GetSignature" /\ LoopGetSignature("none", rx)

SpecLine == InitLine /\ [][ReadLine]_vars

\* ------------------------------------------------------------------------
\*  parseINI line by line
\* ------------------------------------------------------------------------
\* A file with more channel lines and more entries than the tables hold; the
\* names repeat, and the first entry names no channel.
FullNames == <<"a", "b", "c">>

FullName(i) == FullNames[(i % Len(FullNames)) + 1]

FileFull ==
    << "ochBlockSize = 2", "[OutputChannels]" >>
    \o [i \in 1..(MAX_CHANNELS + ParseExtra) |->
            FullName(i) \o " = scalar, U08, " \o (IF i % 2 = 0 THEN "0" ELSE "1")
                \o ", \"u\", 1, 0"]
    \o << "[Datalog]", "entry = zz, \"Z\", int, \"%d\"" >>
    \o [i \in 1..(MAX_CHANNELS + ParseExtra) |->
            "entry = " \o FullName(i + 1) \o ", \"L\", "
                \o (IF i % 2 = 0 THEN "int" ELSE "float") \o ", \"%d\""]

\* The files parsed line by line.
ParseFiles == << FileFull, FileGood, FileTwoSizes, FileFirstZero, FileOnlyDropped >>

\* parseINI has opened file number k and reset the tables.
InitParse ==
    /\ \E k \in DOMAIN ParseFiles :
           pc = [at |-> "line", file |-> k, line |-> 1, inOCH |-> FALSE, inDL |-> FALSE,
                 ok |-> FALSE]
    /\ state = "LoadINI"
    /\ sinceEnter = 0
    /\ sincePoll = 0
    /\ sinceSync = 0
    /\ rowCount = 0
    /\ logOpen = FALSE
    /\ signature = SigA
    /\ iniFilename = sigToFilename(SigA)
    /\ channels = <<>>
    /\ dlChannels = <<>>
    /\ ochBlockSize = 0
    /\ ochBuffer = <<>>
    /\ userial = TRUE
    /\ sd = 1
    /\ logHeader = <<>>
    /\ lastRow = <<>>
    /\ unsynced = FALSE
    /\ sentF = 0
    /\ ev = Quiet("init")

\* The parse state held in the globals and in the locals of parseINI.
ParseAcc ==
    [channels |-> channels, ochBlockSize |-> ochBlockSize, dlChannels |-> dlChannels,
     inOCH |-> pc.inOCH, inDL |-> pc.inDL]

\* The tables and flags after the line acc stands for has been processed.
ParseTo(acc) ==
    /\ channels' = acc.channels
    /\ ochBlockSize' = acc.ochBlockSize
    /\ dlChannels' = acc.dlChannels
    /\ pc' = [pc EXCEPT !.line = pc.line + 1, !.inOCH = acc.inOCH, !.inDL = acc.inDL]

\* One iteration of the while (readLine(...)) loop.
ParseStep ==
    /\ pc.at = "line"
    /\ pc.line <= Len(ParseFiles[pc.file])
    /\ ParseTo(parseLine(ParseAcc, ParseFiles[pc.file][pc.line]))
    /\ ev' = Quiet("line")
    /\ UNCHANGED << state, timeVars, logVars, signature, iniFilename, ochBuffer, userial,
                    sd, sentF >>

\* readLine finds the end of the file: the three final checks.
ParseEnd ==
    /\ pc.at = "line"
    /\ pc.line > Len(ParseFiles[pc.file])
    /\ pc' = [pc EXCEPT !.at = "done", !.ok = SchemaValid(ochBlockSize, numChannels)]
    /\ ev' = Quiet("parsed")
    /\ UNCHANGED << state, timeVars, logVars, signature, iniFilename, schemaVars, ochBuffer,
                    userial, sd, sentF >>

NextParse == ParseStep \/ ParseEnd

SpecParse == InitParse /\ [][NextParse]_vars

\* ------------------------------------------------------------------------
\*  requestOCH's frame over the block sizes a schema may give
\* ------------------------------------------------------------------------
\* Block sizes tried: the smallest, those around the byte boundary and the
\* largest that SchemaValid admits.
FrameSizes ==
    (1..FrameSpan) \cup ((256 - FrameSpan)..(256 + FrameSpan))
        \cup ((OCH_BUF_SIZE - FrameSpan)..OCH_BUF_SIZE)

InitFrame ==
    /\ pc = "poll"
    /\ state = "Logging"
    /\ sinceEnter = 0
    /\ sincePoll = POLL_INTERVAL_MS
    /\ sinceSync = 0
    /\ rowCount = 0
    /\ logOpen = TRUE
    /\ signature = SigA
    /\ iniFilename = sigToFilename(SigA)
    /\ channels = << [NoChannel EXCEPT !.name = "a"] >>
    /\ dlChannels = <<>>
    /\ ochBlockSize \in FrameSizes
    /\ ochBuffer = <<>>
    /\ userial = TRUE
    /\ sd = 1
    /\ logHeader = <<>>
    /\ lastRow = <<>>
    /\ unsynced = FALSE
    /\ sentF = 1
    /\ ev = Quiet("init")

\* The part of requestOCH that builds and writes the frame.
SendFrame ==
    /\ pc = "poll"
    /\ pc' = "sent"
    /\ ev' = [Quiet("frame") EXCEPT !.sent = OCHFrame(ochBlockSize)]
    /\ UNCHANGED << state, timeVars, logVars, signature, iniFilename, schemaVars, ochBuffer,
                    userial, sd, sentF >>

SpecFrame == InitFrame /\ [][SendFrame]_vars

\* ------------------------------------------------------------------------
\*  Properties
\* ------------------------------------------------------------------------
\* The step taken is an iteration of loop() that began in state st.
LoopFrom(st) == state = st /\ (ev'.step = "loop" \/ ev'.step = "remind")

\* What onDisconnect() leaves behind.
SessionCleared ==
    /\ state = "WaitDevice"
    /\ ~logOpen
    /\ ~unsynced
    /\ signature = <<>>
    /\ numChannels = 0
    /\ numDLChannels = 0
    /\ ochBlockSize = 0

\* C1: a loop() iteration that begins in Logging with the device absent and
\* processes no stop command syncs and closes the log, clears the signature,
\* both tables and ochBlockSize, and enters WaitDevice.
C1_DisconnectWhileLogging ==
    [][(LoopFrom("Logging") /\ ~userial /\ ~ev'.stop) => SessionCleared']_vars

\* A log that held rows has been closed by a disconnect seen from Logging.
C1_Witness ==
    /\ ev.from = "Logging" /\ ev.step = "loop" /\ ~ev.stop
    /\ state = "WaitDevice" /\ ~userial /\ rowCount > 0 /\ ~logOpen

\* C2 as stated: in every state other than WaitDevice and Stopped, a loop()
\* iteration that finds the device absent enters WaitDevice with the log
\* closed and the signature and schema cleared.
C2_AsStated ==
    [][((ev'.step = "loop" \/ ev'.step = "remind") /\ ~userial
            /\ state # "WaitDevice" /\ state # "Stopped")
        => SessionCleared']_vars

\* C2: in every state other than WaitDevice, Stopped and ErrorSD, a loop()
\* iteration that finds the device absent enters WaitDevice with the log
\* closed and the signature and schema cleared, unless it processes a stop
\* command, which puts the session in Stopped; in ErrorSD the state only
\* changes on a stop command.
C2_DisconnectRecovery ==
    [][((ev'.step = "loop" \/ ev'.step = "remind") /\ ~userial
            /\ state # "WaitDevice" /\ state # "Stopped")
        => IF ev'.stop THEN state' = "Stopped"
           ELSE IF state = "ErrorSD" THEN state' = "ErrorSD"
           ELSE SessionCleared']_vars

\* A disconnect has been seen from a state other than Logging.
C2_Witness ==
    /\ ev.from = "ErrorINI" /\ ev.step = "loop" /\ ~ev.stop
    /\ state = "WaitDevice" /\ ~userial /\ signature = <<>> /\ numChannels = 0

\* The step taken is a loop() iteration in GetSignature that read an answer
\* of the device to 'S'.
SignatureAnswered ==
    \E cmd \in SerialInput, rx \in SigReplies \ {NoReply} : LoopGetSignature(cmd, rx)

\* C3 as stated: while the device is present and does not answer 'S', a
\* loop() iteration that begins in GetSignature ends in GetSignature, and it
\* sends 'S' again whenever the retry time-out has elapsed.
C3_AsStated ==
    [][(LoopFrom("GetSignature") /\ userial /\ ~SignatureAnswered)
        => /\ state' = "GetSignature"
           /\ SignatureTimedOut => ev'.sent = <<"S">>]_vars

\* C4: between leaving WaitDevice and returning to it 'F' is sent at most
\* once, and exactly once when the session is Logging; a telemetry poll sends
\* no 'F'.
C4_ModeSwitchOnce ==
    /\ sentF <= 1
    /\ state = "Logging" => sentF = 1
    /\ ev.poll # "none" => \A i \in DOMAIN ev.sent : ev.sent[i] # "F"

\* A telemetry poll has succeeded and 'F' has still been sent once.
C4_Witness == state = "Logging" /\ ev.poll = "ok" /\ sentF = 1 /\ rowCount = MaxRows

\* ev.rx holds at least blockSize + 3 bytes with a zero status byte.
FullResponse(rx, blockSize) == Len(rx) >= blockSize + 3 /\ rx[3] = 0

\* C5: a telemetry poll succeeds exactly when at least ochBlockSize + 3 bytes
\* were received and the third is 0; then ochBuffer begins with the
\* ochBlockSize bytes after the status byte and one row, decoded from them,
\* is written; otherwise no row is written.
C5_ReadAcceptance ==
    [][(LoopFrom("Logging") /\ ev'.poll # "none") =>
          /\ ev'.poll = (IF FullResponse(ev'.rx, ochBlockSize) THEN "ok" ELSE "fail")
          /\ FullResponse(ev'.rx, ochBlockSize)
                => /\ SubSeq(ochBuffer', 1, ochBlockSize) = SubSeq(ev'.rx, 4, 3 + ochBlockSize)
                   /\ rowCount' = rowCount + 1
                   /\ \E junk \in JunkValues(channels) :
                         lastRow' = writeRow(SubSeq(ev'.rx, 4, 3 + ochBlockSize), channels,
                                             dlChannels, junk)
          /\ ~FullResponse(ev'.rx, ochBlockSize)
                => rowCount' = rowCount /\ lastRow' = lastRow]_vars

\* A row has been written from an accepted response.
C5_Witness ==
    /\ ev.poll = "ok" /\ rowCount = 1 /\ ochBlockSize = 2 /\ ochBuffer = <<7, 0>>
    /\ Len(ev.rx) = 5 /\ Len(lastRow) = 2

\* C6: a failed telemetry poll writes no row, leaves rowCount and ochBuffer
\* as they were, keeps the session in Logging with the log open and sends one
\* request only; a request is sent only when the poll interval has elapsed
\* since the previous poll began.
C6_FailedReadSkipsCycle ==
    [][/\ (LoopFrom("Logging") /\ ev'.poll = "fail")
            => /\ rowCount' = rowCount
               /\ lastRow' = lastRow
               /\ ochBuffer' = ochBuffer
               /\ state' = "Logging"
               /\ logOpen /\ logOpen'
               /\ ev'.sent = <<"O">>
       /\ (LoopFrom("Logging") /\ ev'.poll # "none")
            => sincePoll >= POLL_INTERVAL_MS]_vars

\* A poll has failed after a row had been written.
C6_Witness ==
    /\ ev.poll = "fail" /\ state = "Logging" /\ logOpen /\ rowCount = 1
    /\ ochBuffer # <<>>

\* C7: a loop() iteration in LoadINI that leaves ochBlockSize 0 or above
\* OCH_BUF_SIZE, or the channel table empty, ends in ErrorINI with the log
\* untouched; and whenever the session is Logging, 0 < ochBlockSize <=
\* OCH_BUF_SIZE and the channel table is not empty.
C7_SchemaGatesLogging ==
    [][/\ (LoopFrom("LoadINI") /\ userial /\ ~ev'.stop
             /\ (ochBlockSize' = 0 \/ ochBlockSize' > OCH_BUF_SIZE \/ numChannels' = 0))
            => (state' = "ErrorINI" /\ ~logOpen' /\ UNCHANGED logVars)
       /\ state' = "Logging"
            => (0 < ochBlockSize' /\ ochBlockSize' <= OCH_BUF_SIZE /\ numChannels' >= 1)]_vars

\* A file whose block size exceeds the buffer has been refused.
C7_Witness ==
    /\ ev.from = "LoadINI" /\ ev.ini # "" /\ state = "ErrorINI"
    /\ ochBlockSize > OCH_BUF_SIZE /\ numChannels > 0 /\ ~logOpen

\* C8 as stated: every descriptor of the channel table of a session that is
\* Logging lies inside the ochBlockSize bytes of telemetry data.
C8_AsStated ==
    state = "Logging" =>
        \A i \in DOMAIN channels :
            channels[i].offset + Width(channels[i].tc) <= ochBlockSize

\* C9 as stated: no descriptor of the channel table reaches past the
\* OCH_BUF_SIZE bytes of ochBuffer, a line that would is dropped.
C9_AsStated ==
    \A i \in DOMAIN channels :
        channels[i].offset + Width(channels[i].tc) <= OCH_BUF_SIZE

\* The value of the first ochBlockSize directive of a file (0: none).
RECURSIVE FirstDirective(_, _)
FirstDirective(lines, i) ==
    IF i > Len(lines) THEN 0
    ELSE IF startsWith(cleanLine(lines[i]), "ochBlockSize")
              /\ strchr(cleanLine(lines[i]), "=") > 0
    THEN ToU16(atoi(From(cleanLine(lines[i]), strchr(cleanLine(lines[i]), "=") + 1)))
    ELSE FirstDirective(lines, i + 1)

\* C10 as stated: after parseINI has read a file, ochBlockSize is the value
\* of the first ochBlockSize directive of that file.
C10_AsStated ==
    (ev.from = "LoadINI" /\ ev.step = "loop" /\ ev.ini # "")
        => ochBlockSize = FirstDirective(Cards[sd][ev.ini], 1)

\* The parse state before the first line of a file.
ParseStart ==
    [channels |-> <<>>, ochBlockSize |-> 0, dlChannels |-> <<>>, inOCH |-> FALSE,
     inDL |-> FALSE]

\* A cleaned line is a [Datalog] entry when the last section header before
\* it is [Datalog] (inDL), it begins with "entry" and has an '='.
IsEntryLine(inDL, line) == inDL /\ startsWith(line, "entry") /\ strchr(line, "=") > 0

\* The first channel of chs called name.
FirstNamed(chs, name) ==
    chs[CHOOSE k \in DOMAIN chs :
            chs[k].name = name /\ \A j \in 1..(k - 1) : chs[j].name # name]

\* The column an entry with these leading fields calls for, given the
\* channels parsed before it: none when it names no channel.
EntryColumn(chs, n, l, t) ==
    IF \E k \in DOMAIN chs : chs[k].name = n.out
    THEN << [ch |-> FirstNamed(chs, n.out), label |-> l.out, asFloat |-> (t.out = "float")] >>
    ELSE <<>>

EntryTyped(chs, n, l) == EntryColumn(chs, n, l, consumeField(l.rest, TYPESTR_LEN))

EntryLabelled(chs, n) == EntryTyped(chs, n, consumeField(n.rest, LABEL_LEN))

EntryOf(chs, line) ==
    EntryLabelled(chs, consumeField(From(line, strchr(line, "=") + 1), NAME_LEN))

\* The output columns the entries of lines i.. call for, in entry order;
\* before is the parse state before line i.
RECURSIVE EntryColumns(_, _, _)
EntryColumns(lines, i, before) ==
    IF i > Len(lines) THEN <<>>
    ELSE (IF IsEntryLine(before.inDL, cleanLine(lines[i]))
          THEN EntryOf(before.channels, cleanLine(lines[i]))
          ELSE <<>>)
         \o EntryColumns(lines, i + 1, parseLine(before, lines[i]))

\* Every channel in file order, as float.
AllColumns(chs) ==
    [i \in 1..Len(chs) |-> [ch |-> chs[i], label |-> chs[i].name, asFloat |-> TRUE]]

ColumnsOr(entries, chs) == IF entries # <<>> THEN entries ELSE AllColumns(chs)

\* The columns C11 calls for: the valid entries, or every channel as float.
ExpectedColumns(lines, chs) == ColumnsOr(EntryColumns(lines, 1, ParseStart), chs)

\* The header rows and the data row these columns give.
HeaderOf(cols) ==
    << <<"Time">> \o [i \in 1..Len(cols) |-> cols[i].label],
       <<"s">> \o [i \in 1..Len(cols) |-> cols[i].ch.unit] >>

RowOf(cols, buf, junk) ==
    [i \in 1..Len(cols) |->
        [val |-> decodeChannel(buf, cols[i].ch, junk), asFloat |-> cols[i].asFloat]]

OutputIs(cols) ==
    /\ logHeader = HeaderOf(cols)
    /\ lastRow # <<>> => \E junk \in JunkValues(channels) : lastRow = RowOf(cols, ochBuffer, junk)

\* C11: while a log is open its header rows and its last data row have one
\* column per valid [Datalog] entry of the file loaded, in entry order, with
\* the entry's label and float/int flag and the unit and bytes of the channel
\* the entry names; with no valid entry, one column per channel in file
\* order, all float.
C11_OutputSubsetting ==
    logOpen => OutputIs(ExpectedColumns(Cards[sd][IniToLoad(Cards[sd])], channels))

\* A row has been written under a [Datalog] section that reorders the two
\* channels, relabels them and drops an entry naming no channel.
C11_Witness ==
    /\ state = "Logging" /\ rowCount > 0
    /\ logHeader = << <<"Time", "Coolant", "RPM">>, <<"s", "deg C", "RPM">> >>
    /\ Len(lastRow) = 2 /\ lastRow[1].asFloat /\ ~lastRow[2].asFloat

\* A row has been written under a [Datalog] section with no valid entry.
C11_WitnessFallback ==
    /\ state = "Logging" /\ rowCount > 0 /\ numDLChannels = 0
    /\ Cards[sd][IniToLoad(Cards[sd])] = FileTwoSizes
    /\ logHeader = << <<"Time", "rpm">>, <<"s", "RPM">> >>

\* C12: a loop() iteration that processes a stop command in Logging syncs
\* and closes the log, writes no row, sends nothing and ends in Stopped; and
\* no step taken in Stopped writes a row or opens a log.
C12_StopWhileLogging ==
    [][/\ (LoopFrom("Logging") /\ ev'.stop)
            => /\ state' = "Stopped"
               /\ ~logOpen' /\ ~unsynced'
               /\ rowCount' = rowCount
               /\ ev'.sent = <<>> /\ ev'.poll = "none"
       /\ state = "Stopped"
            => (rowCount' = rowCount /\ logOpen' = logOpen /\ ev'.poll = "none")]_vars

\* A log that held rows has been closed by a stop command.
C12_Witness ==
    /\ ev.from = "Logging" /\ ev.stop /\ state = "Stopped"
    /\ rowCount > 0 /\ ~logOpen /\ ~unsynced

\* C13 as stated: no step taken in ErrorSD changes the state.
C13_AsStated == [][state = "ErrorSD" => state' = "ErrorSD"]_vars

\* C14 as stated: no step taken in ErrorINI changes the state, and a loop()
\* iteration there does nothing but announce the expected file name once the
\* reminder interval has elapsed.
C14_AsStated ==
    [][state = "ErrorINI"
        => /\ state' = "ErrorINI"
           /\ ev'.step = "remind" <=> (LoopFrom("ErrorINI") /\ RemindDue)]_vars

\* C15 as stated: every command written to the device is 'S', 'F' or the
\* framed 'O' request.
C15_AsStated == \A i \in DOMAIN ev.sent : ev.sent[i] \in {"S", "F", "O"}

KnownChecksums ==
    (1 :> <<5, 154, 9, 196>>) @@ (2 :> <<46, 183, 90, 7>>)
        @@ (256 :> <<107, 134, 8, 19>>) @@ (2948 :> <<212, 188, 188, 66>>)

\* The checksum crc32 gives for a payload, most significant byte first.
BigEndian(cs) == <<cs.hi \div 256, cs.hi % 256, cs.lo \div 256, cs.lo % 256>>

C18_LogOpenFailure ==
    [][(LoopFrom("LoadINI") /\ ev'.sent = LoadCommands) =>
          \A fRx \in FReplies :
              LoopLoadINI("none", fRx, FALSE) =>
                  /\ state' = "ErrorINI"
                  /\ ~logOpen'
                  /\ logHeader' = <<>> /\ lastRow' = <<>>
                  /\ rowCount' = rowCount]_vars

\* A schema has parsed and the session is in ErrorINI for want of a log file.
C18_Witness ==
    /\ ev.from = "LoadINI" /\ ev.sent = LoadCommands /\ state = "ErrorINI"
    /\ SchemaValid(ochBlockSize, numChannels) /\ ~logOpen /\ logHeader = <<>>

\* The order in which an uninterrupted session passes through its states.
StateOrder == <<"WaitDevice", "AssertDTR", "GetSignature", "LoadINI", "Logging">>

\* C19: with the card initialised, the ECU present, an identify answer that
\* holds a printable byte, a schema file that parses, a log file that opens
\* and no stop command, a session in WaitDevice reaches Logging, and every
\* change of state on the way is a step to the next state of StateOrder.
C19_ProgressToLogging ==
    /\ [][state' # state =>
            \E i \in 1..(Len(StateOrder) - 1) :
                state = StateOrder[i] /\ state' = StateOrder[i + 1]]_vars
    /\ (state = "WaitDevice" /\ userial) ~> (state = "Logging")

\* An uninterrupted session has just entered Logging from LoadINI.
C19_Witness ==
    /\ state = "Logging" /\ ev.from = "LoadINI" /\ userial /\ logOpen
    /\ signature # <<>> /\ <<sd, signature>> \in Loadable

\* The response rx with its length prefix replaced by pre and its checksum
\* bytes by cs, as far as it reaches.
Twin(rx, pre, cs, blockSize) ==
    [rx EXCEPT !.bytes =
        [k \in 1..Len(rx.bytes) |->
            IF k <= 2 THEN pre[k]
            ELSE IF k > blockSize + 3 /\ k <= blockSize + 7 THEN cs[k - blockSize - 3]
            ELSE rx.bytes[k]]]

\* requestOCH accepts rx or not as the step did, and leaves the same buffer.
SameOutcome(rx) ==
    /\ requestOCH(ochBlockSize, ochBuffer, rx).ok = (ev'.poll = "ok")
    /\ requestOCH(ochBlockSize, ochBuffer, rx).buf = ochBuffer'

\* C20: a response with any other length prefix and any other checksum bytes,
\* and the same status byte and data bytes, is accepted or rejected like the
\* response that was received, and leaves the same ochBuffer.
C20_PrefixAndChecksumIgnored ==
    [][\A rx \in WholeReplies(ochBlockSize) :
          ReceiveReply(rx) =>
              \A pre \in ReplyPrefixes(ochBlockSize) \cup {<<1, 2>>},
                 cs \in ReplyChecksums \cup {<<255, 254, 253, 252>>} :
                  SameOutcome(Twin(rx, pre, cs, ochBlockSize))]_vars

\* A whole response with a wrong length prefix has been accepted and copied.
C20_Witness ==
    /\ ev.step = "reply" /\ ev.poll = "ok"
    /\ Len(ev.rx) = ochBlockSize + 7
    /\ <<ev.rx[1], ev.rx[2]>> = <<255, 255>>
    /\ ochBuffer = SubSeq(ev.rx, 4, 3 + ochBlockSize)

\* C21 as stated, for requestOCH: the time one telemetry read spends waiting
\* never exceeds the 1500 ms deadline computed at entry.
C21_AsStated ==
    [][\A rx \in WholeReplies(ochBlockSize) :
          ReceiveReply(rx) =>
              requestOCH(ochBlockSize, ochBuffer, rx).dur <= OCH_DEADLINE_MS]_vars

\* readResponse as C22 states it: every received byte moves the deadline to
\* LINE_EXTEND_MS after its arrival, the first NUL or newline ends the read,
\* and the read succeeds when a printable byte has been stored.
RECURSIVE readAsStated(_, _, _, _, _)
readAsStated(rx, k, dst, deadline, maxLen) ==
    IF k > Len(rx.bytes) \/ ArrivesAt(rx, k) >= deadline
    THEN [ok |-> Len(dst) > 0, dst |-> dst]
    ELSE IF rx.bytes[k] = 0 \/ rx.bytes[k] = 10
    THEN [ok |-> Len(dst) > 0, dst |-> dst]
    ELSE readAsStated(rx, k + 1,
                      IF rx.bytes[k] >= 32 /\ Len(dst) < maxLen - 1
                      THEN Append(dst, rx.bytes[k]) ELSE dst,
                      ArrivesAt(rx, k) + LINE_EXTEND_MS, maxLen)

\* C22 as stated: the signature read stores and reports what a read whose
\* deadline every byte resets would.
C22_AsStated ==
    [][\A rx \in LineReplies :
          (state = "GetSignature" /\ LoopGetSignature("none", rx)) =>
              /\ signature' = readAsStated(rx, 1, <<>>, SIG_READ_TIMEOUT_MS, SIG_LEN).dst
              /\ (state' = "LoadINI") =
                    readAsStated(rx, 1, <<>>, SIG_READ_TIMEOUT_MS, SIG_LEN).ok]_vars

\* C23 as stated: Stopped is entered from Logging only, and a stop command
\* processed in any other state leaves the state as it is.
C23_AsStated ==
    [][/\ (state' = "Stopped" /\ state # "Stopped") => state = "Logging"
       /\ (ev'.stop /\ state # "Logging") => state' = state]_vars

\* C24: from Stopped, no step (time, the ECU plugged in or unplugged, a loop()
\* iteration with or without a command) changes the state, writes a command
\* to the device, opens the log or writes a row.
C24_StoppedAbsorbing ==
    [][state = "Stopped" =>
          /\ state' = "Stopped"
          /\ ev'.sent = <<>>
          /\ ~logOpen /\ ~logOpen'
          /\ rowCount' = rowCount
          /\ lastRow' = lastRow /\ logHeader' = logHeader]_vars

\* loop() has run in Stopped with the ECU unplugged, after rows were logged.
C24_Witness ==
    /\ state = "Stopped" /\ ev.from = "Stopped" /\ ev.step = "loop"
    /\ ~userial /\ rowCount > 0 /\ ~logOpen

\* The step writes the command c to the device.
Writes(c) == \E i \in DOMAIN ev'.sent : ev'.sent[i] = c

\* C25: between two departures from WaitDevice, 'S' is written only while no
\* 'F' has been written, 'O' only after an 'F' and only by case
\* State::Logging, and the step that writes 'F' writes no 'S' or 'O'.
C25_CommandOrder ==
    [][/\ Writes("S") => (sentF' = 0 /\ ~Writes("F"))
       /\ Writes("O") => (sentF >= 1 /\ state = "Logging" /\ state' = "Logging"
                            /\ ~Writes("F") /\ ~Writes("S"))
       /\ Writes("F") => (state = "LoadINI" /\ ev'.sent[1] = "F")]_vars

\* A telemetry request has been written after one 'F', which followed 'S'.
C25_Witness ==
    /\ ev.sent = <<"O">> /\ ev.from = "Logging" /\ sentF = 1 /\ signature # <<>>

\* The step opens a log file.
LogOpened == ~logOpen /\ logOpen'

\* C26: a log is opened by case State::LoadINI only, as the first since the
\* session left WaitDevice, with its two header rows and rowCount = 0; the
\* header of an open log never changes; a row is written by exactly the
\* steps whose telemetry read succeeded, with the log open, and each adds one
\* to rowCount; no other step changes rowCount or the rows.
C26_OutputOrder ==
    [][/\ LogOpened =>
            /\ state = "LoadINI" /\ sentF = 0 /\ sentF' = 1
            /\ logHeader' = writeHeader(channels', dlChannels')
            /\ Len(logHeader') = 2
            /\ lastRow' = <<>> /\ rowCount' = 0
       /\ (logOpen /\ logOpen') => logHeader' = logHeader
       /\ ~logOpen' => (logHeader' = <<>> /\ lastRow' = <<>>)
       /\ ev'.poll = "ok" =>
            /\ logOpen /\ logOpen'
            /\ rowCount' = rowCount + 1
            /\ \E junk \in JunkValues(channels) :
                   lastRow' = writeRow(ochBuffer', channels, dlChannels, junk)
       /\ (ev'.poll # "ok" /\ ~LogOpened) =>
            /\ rowCount' = rowCount
            /\ lastRow' = lastRow \/ ~logOpen']_vars

\* A second log of the run has been opened after rows went to the first.
C26_Witness ==
    /\ ev.from = "LoadINI" /\ state = "Logging" /\ logOpen
    /\ rowCount = 0 /\ Len(logHeader) = 2 /\ lastRow = <<>>
    /\ ochBuffer # <<>>

\* Rows have been written to an open log, one for each successful read.
C26_WitnessRows ==
    /\ logOpen /\ rowCount = MaxRows /\ ev.poll = "ok" /\ lastRow # <<>>

\* C27: between two iterations of loop(), the log is open exactly when the
\* session is Logging.
C27_LogOpenIffLogging == logOpen <=> (state = "Logging")

\* The log has been closed on the way out of Logging, by a stop command.
C27_Witness ==
    /\ ev.from = "Logging" /\ ev.stop /\ state = "Stopped" /\ ~logOpen /\ rowCount > 0

\* Each table holds at most MAX_CHANNELS elements, and every entry's chanIdx
\* is the index of a channel, the first of its name.
TablesWellFormed ==
    /\ numChannels <= MAX_CHANNELS
    /\ numDLChannels <= MAX_CHANNELS
    /\ \A i \in DOMAIN dlChannels :
          /\ dlChannels[i].chanIdx >= 0
          /\ dlChannels[i].chanIdx < numChannels
          /\ \A j \in 1..dlChannels[i].chanIdx :
                channels[j].name # channels[dlChannels[i].chanIdx + 1].name

\* The channel name the entry line raw gives.
NameInEntry(line) == consumeField(From(line, strchr(line, "=") + 1), NAME_LEN).out

\* C28: after every line of parseINI and at its end the tables are well
\* formed; an entry that is added refers to a channel called as the entry
\* says; a line read with a table full leaves that table as it is; and a
\* parse that found a block size within bounds and filled the channel table
\* returns true.
C28_TablesWellFormed ==
    [][/\ TablesWellFormed'
       /\ numDLChannels' > numDLChannels =>
            /\ numDLChannels' = numDLChannels + 1
            /\ channels'[dlChannels'[numDLChannels'].chanIdx + 1].name
                  = NameInEntry(cleanLine(ParseFiles[pc.file][pc.line]))
       /\ numChannels = MAX_CHANNELS => channels' = channels
       /\ numDLChannels = MAX_CHANNELS => dlChannels' = dlChannels
       /\ (pc'.at = "done" /\ numChannels = MAX_CHANNELS /\ ochBlockSize \in 1..OCH_BUF_SIZE)
            => pc'.ok]_vars

\* A file with more channel lines and entries than fit has been parsed: both
\* tables are full and parseINI returned true.
C28_Witness ==
    /\ pc.at = "done" /\ pc.ok
    /\ numChannels = MAX_CHANNELS /\ numDLChannels = MAX_CHANNELS
    /\ Len(ParseFiles[pc.file]) > 2 * MAX_CHANNELS

====
